---- MODULE Spec2Model ----
(***************************************************************************)
(* Model of helper/certutil/types.go: the conversions between the string   *)
(* (PEM) certificate bundle and the parsed (DER) bundle, Verify, the trust *)
(* path and GetTLSConfig.                                                  *)
(*                                                                         *)
(* A PEM text is modelled by what the decoder reads from it: its block     *)
(* label, its DER payload, whether it carries RFC 1421 headers or another  *)
(* non-canonical layout (hdr) and whether it has leading or trailing       *)
(* whitespace (pad).  A DER payload is modelled by what the x509 parsers   *)
(* read from it.  A *big.Int is a pair of an address and a value, so that   *)
(* Go's == on two *big.Int (address comparison) can be told from value     *)
(* comparison.                                                             *)
(***************************************************************************)
EXTENDS Integers, Sequences, FiniteSets, TLC

VARIABLES
    c0,     \* the CertBundle as the caller passed it to ToParsedCertBundle
            \* (the CSRBundle passed to ToParsedCSRBundle, under pc "csr...")
    c,      \* the CertBundle now (ToParsedCertBundle writes to its receiver)
    p,      \* the ParsedCertBundle in hand (NilBundle when there is none)
    pc,     \* "string": c not parsed yet; "parsed": p returned by
            \* ToParsedCertBundle; "failed": ToParsedCertBundle returned an
            \* error or faulted; "built": p built by the caller;
            \* "csr": c is a CSRBundle not parsed yet; "csrParsed": p is the
            \* ParsedCSRBundle ToParsedCSRBundle returned; "csrFailed":
            \* ToParsedCSRBundle returned an error
    perr,   \* the error the conversion returned ("" for none)
    ret     \* the last call on p and what it returned

vars == <<c0, c, p, pc, perr, ret>>

(***************************************************************************)
(* Bounds                                                                  *)
(***************************************************************************)
MaxChain == 2       \* longest CAChain of an input bundle

(***************************************************************************)
(* Program constants                                                       *)
(***************************************************************************)
UnknownPrivateKey == ""
RSAPrivateKey == "rsa"
ECPrivateKey == "ec"

TLSUnknown == 0
TLSServer == 2
TLSClient == 4

PKCS1Block == "RSA PRIVATE KEY"
PKCS8Block == "PRIVATE KEY"
ECBlock == "EC PRIVATE KEY"

CertificateLabel == "CERTIFICATE"

(***************************************************************************)
(* Strings, PEM texts and DER payloads                                     *)
(***************************************************************************)
\* strings.TrimSpace on the short strings of the model (block labels and
\* serial numbers): the strings that carry outer whitespace are listed.
TrimSpaceStr(s) ==
    CASE s = "EC PRIVATE KEY " -> "EC PRIVATE KEY"
      [] s = " PRIVATE KEY" -> "PRIVATE KEY"
      [] s = " 01 " -> "01"
      [] OTHER -> s

NoText == [kind |-> "empty"]          \* the empty string
Garbage == [kind |-> "text"]          \* a non-empty string holding no PEM block
PEM(label, der, hdr, pad) ==
    [kind |-> "pem", label |-> label, der |-> der, hdr |-> hdr, pad |-> pad]

\* len(s) > 0 of a text field
NonEmpty(t) == t.kind # "empty"

\* strings.TrimSpace on a text field
TrimSpace(t) == IF t.kind = "pem" THEN [t EXCEPT !.pad = FALSE] ELSE t

NilBlock == [ok |-> FALSE]

\* pem.Decode: the first PEM block of the text; its headers are read into
\* Block.Headers, which no caller here looks at.
pemDecode(t) ==
    IF t.kind = "pem" THEN [ok |-> TRUE, Type |-> t.label, Bytes |-> t.der]
    ELSE NilBlock

\* pem.EncodeToMemory: the canonical text of the block, ending in a newline.
pemEncodeToMemory(type, bytes) == PEM(type, bytes, FALSE, TRUE)

NoBytes == [kind |-> "nil"]           \* a nil or zero-length []byte
JunkDER == [kind |-> "junk"]          \* bytes no x509 parser accepts
HasBytes(b) == b.kind # "nil"

CertDER(serial, pub, isCA, ski, aki) ==
    [kind |-> "cert", serial |-> serial, pub |-> pub, isCA |-> isCA,
     ski |-> ski, aki |-> aki]
KeyDER(kind, key) == [kind |-> kind, key |-> key]   \* kind: pkcs1, sec1, pkcs8

NoCert == [kind |-> "nil"]            \* a nil *x509.Certificate
NoSigner == [kind |-> "nil"]          \* a nil crypto.Signer
NilInt == [ptr |-> 0, val |-> 0]      \* a nil *big.Int

\* x509.ParseCertificate: a new Certificate, whose SerialNumber is a new
\* big.Int at address ptr.
ParseCertificate(der, ptr) ==
    IF der.kind = "cert"
    THEN [ok |-> TRUE,
          cert |-> [kind |-> "cert",
                    SerialNumber |-> [ptr |-> ptr, val |-> der.serial],
                    PublicKey |-> der.pub, IsCA |-> der.isCA,
                    SubjectKeyId |-> der.ski, AuthorityKeyId |-> der.aki]]
    ELSE [ok |-> FALSE, cert |-> NoCert]

Signer(key) == [kind |-> "signer", alg |-> key.alg, id |-> key.id]
Public(signer) == [alg |-> signer.alg, id |-> signer.id]

\* x509.ParseECPrivateKey, x509.ParsePKCS1PrivateKey, x509.ParsePKCS8PrivateKey
ParseECPrivateKey(der) ==
    IF der.kind = "sec1" THEN [ok |-> TRUE, key |-> der.key] ELSE [ok |-> FALSE]
ParsePKCS1PrivateKey(der) ==
    IF der.kind = "pkcs1" THEN [ok |-> TRUE, key |-> der.key] ELSE [ok |-> FALSE]
ParsePKCS8PrivateKey(der) ==
    IF der.kind = "pkcs8" THEN [ok |-> TRUE, key |-> der.key] ELSE [ok |-> FALSE]

\* (*big.Int).Bytes: the big-endian bytes of the absolute value
RECURSIVE BigBytes(_)
BigBytes(n) == IF n = 0 THEN <<>> ELSE BigBytes(n \div 256) \o <<n % 256>>

HexDigits ==
    <<"0", "1", "2", "3", "4", "5", "6", "7",
      "8", "9", "a", "b", "c", "d", "e", "f">>
HexByte(b) == HexDigits[(b \div 16) + 1] \o HexDigits[(b % 16) + 1]

\* GetHexFormatted: lowercase hex octets joined by sep
RECURSIVE GetHexFormatted(_, _)
GetHexFormatted(buf, sep) ==
    IF buf = <<>> THEN ""
    ELSE IF Len(buf) = 1 THEN HexByte(buf[1])
    ELSE HexByte(buf[1]) \o sep \o GetHexFormatted(Tail(buf), sep)

(***************************************************************************)
(* The bundles                                                             *)
(***************************************************************************)
\* CertBundle{}
EmptyCertBundle ==
    [PrivateKeyType |-> UnknownPrivateKey, Certificate |-> NoText,
     IssuingCA |-> NoText, CAChain |-> <<>>, PrivateKey |-> NoText,
     SerialNumber |-> ""]

\* ParsedCertBundle{}
EmptyParsedCertBundle ==
    [PrivateKeyType |-> UnknownPrivateKey, PrivateKeyFormat |-> "",
     PrivateKeyBytes |-> NoBytes, PrivateKey |-> NoSigner,
     CertificateBytes |-> NoBytes, Certificate |-> NoCert,
     CAChain |-> <<>>, SerialNumber |-> NilInt]

NilBundle == [nil |-> TRUE]           \* a nil *ParsedCertBundle
NoRet == [op |-> "none"]

CertBlock(cert, bytes) == [Certificate |-> cert, Bytes |-> bytes]

(***************************************************************************)
(* getSigner and getPKCS8Type                                              *)
(***************************************************************************)
\* (*ParsedCertBundle).getSigner
getSigner(pb) ==
    IF ~HasBytes(pb.PrivateKeyBytes)
    THEN [err |-> "Given parsed cert bundle does not have private key information",
          signer |-> NoSigner]
    ELSE CASE pb.PrivateKeyFormat = ECBlock ->
                LET k == ParseECPrivateKey(pb.PrivateKeyBytes) IN
                IF k.ok THEN [err |-> "", signer |-> Signer(k.key)]
                ELSE [err |-> "Unable to parse CA's private EC key",
                      signer |-> NoSigner]
           [] pb.PrivateKeyFormat = PKCS1Block ->
                LET k == ParsePKCS1PrivateKey(pb.PrivateKeyBytes) IN
                IF k.ok THEN [err |-> "", signer |-> Signer(k.key)]
                ELSE [err |-> "Unable to parse CA's private RSA key",
                      signer |-> NoSigner]
           [] pb.PrivateKeyFormat = PKCS8Block ->
                LET k == ParsePKCS8PrivateKey(pb.PrivateKeyBytes) IN
                IF k.ok
                THEN IF k.key.alg \in {"rsa", "ec"}
                     THEN [err |-> "", signer |-> Signer(k.key)]
                     ELSE [err |-> "Found unknown private key type in pkcs#8 wrapping",
                           signer |-> NoSigner]
                ELSE [err |-> "Failed to parse pkcs#8 key", signer |-> NoSigner]
           [] OTHER ->
                [err |-> "Unable to determine type of private key; only RSA and EC are supported",
                 signer |-> NoSigner]

\* getPKCS8Type with the two cases of the type switch exchanged
getPKCS8Type_CasesExchanged(bs) ==
    LET k == ParsePKCS8PrivateKey(bs) IN
    IF ~k.ok THEN [err |-> "Failed to parse pkcs#8 key", t |-> UnknownPrivateKey]
    ELSE CASE k.key.alg = "ec" -> [err |-> "", t |-> RSAPrivateKey]
           [] k.key.alg = "rsa" -> [err |-> "", t |-> ECPrivateKey]
           [] OTHER -> [err |-> "Found unknown private key type in pkcs#8 wrapping",
                        t |-> UnknownPrivateKey]

getPKCS8Type(bs) ==
    LET k == ParsePKCS8PrivateKey(bs) IN
    IF ~k.ok THEN [err |-> "Failed to parse pkcs#8 key", t |-> UnknownPrivateKey]
    ELSE CASE k.key.alg = "ec" -> [err |-> "", t |-> ECPrivateKey]
           [] k.key.alg = "rsa" -> [err |-> "", t |-> RSAPrivateKey]
           [] OTHER -> [err |-> "Found unknown private key type in pkcs#8 wrapping",
                        t |-> UnknownPrivateKey]

(***************************************************************************)
(* ToParsedCertBundle, one operator per stage.  A stage takes and returns   *)
(* [err, c, result]: the error returned so far, the receiver and the       *)
(* bundle under construction.                                              *)
(***************************************************************************)
PanicNilDeref == "panic: nil pointer dereference"

Return(err, cb, result) == [err |-> err, c |-> cb, result |-> result]

\* lines 145-179: the private key
parsePrivateKey(cb, result) ==
    IF ~NonEmpty(cb.PrivateKey) THEN Return("", cb, result)
    ELSE
    LET pemBlock == pemDecode(cb.PrivateKey) IN
    IF ~pemBlock.ok
    THEN Return("Error decoding private key from cert bundle", cb, result)
    ELSE
    LET format == TrimSpaceStr(pemBlock.Type)
        r1 == [result EXCEPT !.PrivateKeyBytes = pemBlock.Bytes,
                             !.PrivateKeyFormat = format]
        typed ==
            CASE format = ECBlock ->
                    Return("", [cb EXCEPT !.PrivateKeyType = ECPrivateKey],
                           [r1 EXCEPT !.PrivateKeyType = ECPrivateKey])
              [] format = PKCS1Block ->
                    Return("", [cb EXCEPT !.PrivateKeyType = RSAPrivateKey],
                           [r1 EXCEPT !.PrivateKeyType = RSAPrivateKey])
              [] format = PKCS8Block ->
                    LET t == getPKCS8Type(pemBlock.Bytes) IN
                    IF t.err # ""
                    THEN Return("Error getting key type from pkcs#8: " \o t.err,
                                cb, r1)
                    ELSE Return("",
                                IF t.t \in {ECPrivateKey, RSAPrivateKey}
                                THEN [cb EXCEPT !.PrivateKeyType = t.t] ELSE cb,
                                [r1 EXCEPT !.PrivateKeyType = t.t])
              [] OTHER -> Return("Unsupported key block type", cb, r1)
    IN
    IF typed.err # "" THEN typed
    ELSE
    LET s == getSigner(typed.result) IN
    IF s.err # ""
    THEN Return("Error getting signer: " \o s.err, typed.c, typed.result)
    ELSE Return("", typed.c, [typed.result EXCEPT !.PrivateKey = s.signer])

\* lines 181-191: the certificate
parseCertificate(cb, result) ==
    IF ~NonEmpty(cb.Certificate) THEN Return("", cb, result)
    ELSE
    LET pemBlock == pemDecode(cb.Certificate) IN
    IF ~pemBlock.ok
    THEN Return("Error decoding certificate from cert bundle", cb, result)
    ELSE
    LET parsed == ParseCertificate(pemBlock.Bytes, 1) IN
    IF ~parsed.ok
    THEN Return("Error encountered parsing certificate bytes from raw bundle",
                cb, result)
    ELSE Return("", cb, [result EXCEPT !.CertificateBytes = pemBlock.Bytes,
                                       !.Certificate = parsed.cert])

\* lines 194-210: the loop over c.CAChain, from entry i on
RECURSIVE parseCAChainFrom(_, _, _)
parseCAChainFrom(cb, result, i) ==
    IF i > Len(cb.CAChain) THEN Return("", cb, result)
    ELSE
    LET pemBlock == pemDecode(cb.CAChain[i]) IN
    IF ~pemBlock.ok
    THEN Return("Error decoding certificate from cert bundle", cb, result)
    ELSE
    LET parsed == ParseCertificate(pemBlock.Bytes, i + 1) IN
    IF ~parsed.ok
    THEN Return("Error encountered parsing certificate bytes from raw bundle",
                cb, result)
    ELSE parseCAChainFrom(cb,
            [result EXCEPT !.CAChain =
                Append(@, CertBlock(parsed.cert, pemBlock.Bytes))],
            i + 1)

\* lines 213-230: the legacy issuing CA
parseIssuingCA(cb, result) ==
    LET pemBlock == pemDecode(cb.IssuingCA) IN
    IF ~pemBlock.ok
    THEN Return("Error decoding ca certificate from cert bundle", cb, result)
    ELSE
    LET parsed == ParseCertificate(pemBlock.Bytes, 2) IN
    IF ~parsed.ok
    THEN Return("Error encountered parsing certificate bytes from raw bundle3",
                cb, result)
    ELSE IF result.Certificate = NoCert
    THEN Return(PanicNilDeref, cb, result)      \* line 224
    ELSE Return("", cb,
            [result EXCEPT !.SerialNumber = result.Certificate.SerialNumber,
                           !.CAChain =
                Append(@, CertBlock(parsed.cert, pemBlock.Bytes))])

\* parseChain with the cases of the switch in the other order
parseChain_IssuingCAFirst(cb, result) ==
    CASE NonEmpty(cb.IssuingCA) -> parseIssuingCA(cb, result)
      [] Len(cb.CAChain) > 0 -> parseCAChainFrom(cb, result, 1)
      [] OTHER -> Return("", cb, result)

\* lines 192-231: the switch between the CA chain and the issuing CA
parseChain(cb, result) ==
    CASE Len(cb.CAChain) > 0 -> parseCAChainFrom(cb, result, 1)
      [] NonEmpty(cb.IssuingCA) -> parseIssuingCA(cb, result)
      [] OTHER -> Return("", cb, result)

\* populateSerialNumber without the test that the field is empty
populateSerialNumber_Unguarded(cb, result) ==
    IF NonEmpty(cb.Certificate)
    THEN Return("",
            [cb EXCEPT !.SerialNumber =
                GetHexFormatted(BigBytes(result.Certificate.SerialNumber.val), ":")],
            result)
    ELSE Return("", cb, result)

\* lines 233-236: the serial number of the receiver
populateSerialNumber(cb, result) ==
    IF cb.SerialNumber = "" /\ NonEmpty(cb.Certificate)
    THEN Return("",
            [cb EXCEPT !.SerialNumber =
                GetHexFormatted(BigBytes(result.Certificate.SerialNumber.val), ":")],
            result)
    ELSE Return("", cb, result)

\* (*CertBundle).ToParsedCertBundle: [err, c, result], result NilBundle on
\* an error; c is the receiver as the call leaves it.
ToParsedCertBundle(cb) ==
    LET k == parsePrivateKey(cb, EmptyParsedCertBundle) IN
    IF k.err # "" THEN Return(k.err, k.c, NilBundle)
    ELSE
    LET l == parseCertificate(k.c, k.result) IN
    IF l.err # "" THEN Return(l.err, l.c, NilBundle)
    ELSE
    LET ch == parseChain(l.c, l.result) IN
    IF ch.err # "" THEN Return(ch.err, ch.c, NilBundle)
    ELSE populateSerialNumber(ch.c, ch.result)

(***************************************************************************)
(* The CSR bundles: ToParsedCSRBundle and its getSigner                    *)
(***************************************************************************)
\* CSRBundle{}
EmptyCSRBundle ==
    [PrivateKeyType |-> UnknownPrivateKey, CSR |-> NoText, PrivateKey |-> NoText]

\* ParsedCSRBundle{}
EmptyParsedCSRBundle ==
    [PrivateKeyType |-> UnknownPrivateKey, PrivateKeyBytes |-> NoBytes,
     PrivateKey |-> NoSigner, CSRBytes |-> NoBytes, CSR |-> NoCert]

CSRDER(pub) == [kind |-> "csr", pub |-> pub]

\* x509.ParseCertificateRequest
ParseCertificateRequest(der) ==
    IF der.kind = "csr"
    THEN [ok |-> TRUE, csr |-> [kind |-> "csr", PublicKey |-> der.pub]]
    ELSE [ok |-> FALSE, csr |-> NoCert]

\* (*ParsedCSRBundle).getSigner: the switch is on the key type
getSignerCSR(pb) ==
    IF ~HasBytes(pb.PrivateKeyBytes)
    THEN [err |-> "Given parsed cert bundle does not have private key information",
          signer |-> NoSigner]
    ELSE CASE pb.PrivateKeyType = ECPrivateKey ->
                LET k == ParseECPrivateKey(pb.PrivateKeyBytes) IN
                IF k.ok THEN [err |-> "", signer |-> Signer(k.key)]
                ELSE [err |-> "Unable to parse CA's private EC key",
                      signer |-> NoSigner]
           [] pb.PrivateKeyType = RSAPrivateKey ->
                LET k == ParsePKCS1PrivateKey(pb.PrivateKeyBytes) IN
                IF k.ok THEN [err |-> "", signer |-> Signer(k.key)]
                ELSE [err |-> "Unable to parse CA's private RSA key",
                      signer |-> NoSigner]
           [] OTHER ->
                [err |-> "Unable to determine type of private key; only RSA and EC are supported",
                 signer |-> NoSigner]

\* lines 406-435: the private key of a CSR bundle; the label is compared
\* as pem.Decode gives it
parsePrivateKeyCSR(cb, result) ==
    IF ~NonEmpty(cb.PrivateKey) THEN Return("", cb, result)
    ELSE
    LET pemBlock == pemDecode(cb.PrivateKey) IN
    IF ~pemBlock.ok
    THEN Return("Error decoding private key from cert bundle", cb, result)
    ELSE
    LET r1 == [result EXCEPT !.PrivateKeyBytes = pemBlock.Bytes]
        typed ==
            CASE pemBlock.Type = ECBlock ->
                    Return("", cb, [r1 EXCEPT !.PrivateKeyType = ECPrivateKey])
              [] pemBlock.Type = PKCS1Block ->
                    Return("", cb, [r1 EXCEPT !.PrivateKeyType = RSAPrivateKey])
              [] OTHER ->
                    IF ParseECPrivateKey(pemBlock.Bytes).ok
                    THEN Return("", [cb EXCEPT !.PrivateKeyType = "ec"],
                                [r1 EXCEPT !.PrivateKeyType = ECPrivateKey])
                    ELSE IF ParsePKCS1PrivateKey(pemBlock.Bytes).ok
                    THEN Return("", [cb EXCEPT !.PrivateKeyType = "rsa"],
                                [r1 EXCEPT !.PrivateKeyType = RSAPrivateKey])
                    ELSE Return("Unknown private key type in bundle", cb, r1)
    IN
    IF typed.err # "" THEN typed
    ELSE
    LET s == getSignerCSR(typed.result) IN
    IF s.err # ""
    THEN Return("Error getting signer: " \o s.err, typed.c, typed.result)
    ELSE Return("", typed.c, [typed.result EXCEPT !.PrivateKey = s.signer])

\* lines 437-447: the certificate request
parseCSR(cb, result) ==
    IF ~NonEmpty(cb.CSR) THEN Return("", cb, result)
    ELSE
    LET pemBlock == pemDecode(cb.CSR) IN
    IF ~pemBlock.ok
    THEN Return("Error decoding certificate from cert bundle", cb, result)
    ELSE
    LET parsed == ParseCertificateRequest(pemBlock.Bytes) IN
    IF ~parsed.ok
    THEN Return("Error encountered parsing certificate bytes from raw bundle",
                cb, result)
    ELSE Return("", cb, [result EXCEPT !.CSRBytes = pemBlock.Bytes,
                                       !.CSR = parsed.csr])

\* (*CSRBundle).ToParsedCSRBundle: [err, c, result], result NilBundle on an
\* error; c is the receiver as the call leaves it.
ToParsedCSRBundle(cb) ==
    LET k == parsePrivateKeyCSR(cb, EmptyParsedCSRBundle) IN
    IF k.err # "" THEN Return(k.err, k.c, NilBundle)
    ELSE
    LET r == parseCSR(k.c, k.result) IN
    IF r.err # "" THEN Return(r.err, r.c, NilBundle)
    ELSE r

(***************************************************************************)
(* ToCertBundle                                                            *)
(***************************************************************************)
\* lines 258-263: the chain, re-encoded entry by entry
encodeCAChain(chain) ==
    [i \in 1..Len(chain) |->
        TrimSpace(pemEncodeToMemory(CertificateLabel, chain[i].Bytes))]

\* privateKeyBlockType taken from the key type alone, as ToCSRBundle does
privateKeyBlockType_FromKeyType(pb) ==
    CASE pb.PrivateKeyType = ECPrivateKey -> ECBlock
      [] pb.PrivateKeyType = RSAPrivateKey -> PKCS1Block
      [] OTHER -> ""

\* lines 265-281: the label of the private key block
privateKeyBlockType(pb) ==
    IF pb.PrivateKeyFormat = ""
    THEN CASE pb.PrivateKeyType = ECPrivateKey -> ECBlock
           [] pb.PrivateKeyType = RSAPrivateKey -> PKCS1Block
           [] OTHER -> ""
    ELSE pb.PrivateKeyFormat

\* (*ParsedCertBundle).ToCertBundle: [err, result]
ToCertBundle(pb) ==
    LET serial ==
            IF pb.Certificate # NoCert
            THEN TrimSpaceStr(GetHexFormatted(
                     BigBytes(pb.Certificate.SerialNumber.val), ":"))
            ELSE ""
        certificate ==
            IF HasBytes(pb.CertificateBytes)
            THEN TrimSpace(pemEncodeToMemory(CertificateLabel, pb.CertificateBytes))
            ELSE NoText
        withKey == HasBytes(pb.PrivateKeyBytes)
    IN
    [err |-> "",
     result |->
        [PrivateKeyType |-> IF withKey THEN pb.PrivateKeyType ELSE UnknownPrivateKey,
         Certificate |-> certificate,
         IssuingCA |-> NoText,
         CAChain |-> encodeCAChain(pb.CAChain),
         PrivateKey |->
            IF withKey
            THEN TrimSpace(pemEncodeToMemory(privateKeyBlockType(pb),
                                             pb.PrivateKeyBytes))
            ELSE NoText,
         SerialNumber |-> serial]]

(***************************************************************************)
(* GetCertificatePath and Verify                                           *)
(***************************************************************************)
\* Go's != on two *big.Int compares the addresses.
SamePointer(a, b) == a.ptr = b.ptr

\* (*ParsedCertBundle).GetCertificatePath: [panic, path]
GetCertificatePath(pb) ==
    LET first == <<CertBlock(pb.Certificate, pb.CertificateBytes)>> IN
    IF Len(pb.CAChain) > 0
    THEN IF pb.Certificate = NoCert
         THEN [panic |-> TRUE, path |-> <<>>]        \* line 327
         ELSE IF ~SamePointer(pb.CAChain[1].Certificate.SerialNumber,
                              pb.Certificate.SerialNumber)
         THEN [panic |-> FALSE, path |-> first \o pb.CAChain]
         ELSE [panic |-> FALSE, path |-> first]
    ELSE [panic |-> FALSE, path |-> first]

\* ComparePublicKeys: equal when the algorithm and the key material are
ComparePublicKeys(key1, key2) == [equal |-> key1 = key2, err |-> ""]

NoError == [err |-> "", index |-> 0]
ErrMismatch == "Public key of certificate does not match private key"
ErrNotCA == "certificate %d of certificate chain is not a certificate authority"
ErrTrustPath == "certificate %d of certificate chain ca trust path is incorrect"

\* verifyPrivateKey with the test of equal negated
verifyPrivateKey_Negated(pb) ==
    IF pb.PrivateKey # NoSigner /\ pb.Certificate # NoCert
    THEN LET cmp == ComparePublicKeys(pb.Certificate.PublicKey,
                                      Public(pb.PrivateKey)) IN
         IF cmp.err # ""
         THEN [err |-> "could not compare public and private keys", index |-> 0]
         ELSE IF cmp.equal THEN [err |-> ErrMismatch, index |-> 0]
         ELSE NoError
    ELSE NoError

\* lines 291-299: the private key against the certificate
verifyPrivateKey(pb) ==
    IF pb.PrivateKey # NoSigner /\ pb.Certificate # NoCert
    THEN LET cmp == ComparePublicKeys(pb.Certificate.PublicKey,
                                      Public(pb.PrivateKey)) IN
         IF cmp.err # ""
         THEN [err |-> "could not compare public and private keys", index |-> 0]
         ELSE IF ~cmp.equal THEN [err |-> ErrMismatch, index |-> 0]
         ELSE NoError
    ELSE NoError

\* lines 303-311: the loop over certPath[1:], from Go's i on; the parent is
\* certPath[i+1] and the child certPath[i], both counted from 0.
RECURSIVE verifyPathFrom(_, _)
verifyPathFrom(certPath, i) ==
    IF i + 1 >= Len(certPath) THEN NoError
    ELSE
    LET caCert == certPath[i + 2]
        child == certPath[i + 1]
    IN
    IF ~caCert.Certificate.IsCA THEN [err |-> ErrNotCA, index |-> i + 1]
    ELSE IF child.Certificate.AuthorityKeyId # caCert.Certificate.SubjectKeyId
    THEN [err |-> ErrTrustPath, index |-> i + 1]
    ELSE verifyPathFrom(certPath, i + 1)

\* verifyPath with the loop starting one entry late
verifyPath_FromSecond(pb) ==
    LET certPath == GetCertificatePath(pb) IN
    IF certPath.panic THEN [err |-> PanicNilDeref, index |-> 0]
    ELSE IF Len(certPath.path) > 1 THEN verifyPathFrom(certPath.path, 1)
    ELSE NoError

\* lines 301-314: the trust path
verifyPath(pb) ==
    LET certPath == GetCertificatePath(pb) IN
    IF certPath.panic THEN [err |-> PanicNilDeref, index |-> 0]
    ELSE IF Len(certPath.path) > 1 THEN verifyPathFrom(certPath.path, 0)
    ELSE NoError

\* (*ParsedCertBundle).Verify: [err, index]
Verify(pb) ==
    LET k == verifyPrivateKey(pb) IN
    IF k.err # "" THEN k ELSE verifyPath(pb)

(***************************************************************************)
(* SetParsedPrivateKey and GetTLSConfig                                    *)
(***************************************************************************)
\* (*ParsedCertBundle).SetParsedPrivateKey
SetParsedPrivateKey(pb, privateKey, privateKeyType, privateKeyBytes) ==
    [pb EXCEPT !.PrivateKey = privateKey,
               !.PrivateKeyType = privateKeyType,
               !.PrivateKeyBytes = privateKeyBytes]

NilPool == [nil |-> TRUE]             \* a nil *x509.CertPool
NilConfig == [nil |-> TRUE]           \* a nil *tls.Config

\* usage & flag > 0, flag a power of two
HasFlag(usage, flag) == (usage \div flag) % 2 = 1

\* x509.NewCertPool followed by AppendCertsFromPEM: the pool takes the
\* CERTIFICATE blocks without headers that parse.
AppendCertsFromPEM(text) ==
    LET pemBlock == pemDecode(text) IN
    IF pemBlock.ok /\ pemBlock.Type = CertificateLabel /\ ~text.hdr
       /\ ParseCertificate(pemBlock.Bytes, 0).ok
    THEN [ok |-> TRUE, pool |-> [nil |-> FALSE, certs |-> {pemBlock.Bytes}]]
    ELSE [ok |-> FALSE, pool |-> [nil |-> FALSE, certs |-> {}]]

\* lines 527-550: the tls.Certificate
tlsCertificate(pb) ==
    [Leaf |-> pb.Certificate,
     PrivateKey |-> pb.PrivateKey,
     Certificate |->
        (IF HasBytes(pb.CertificateBytes) THEN <<pb.CertificateBytes>> ELSE <<>>)
        \o [i \in 1..Len(pb.CAChain) |-> pb.CAChain[i].Bytes]]

\* installPool with the two pools exchanged
installPool_Exchanged(config, usage, caPool) ==
    [config EXCEPT
        !.RootCAs = IF HasFlag(usage, TLSServer) THEN caPool ELSE @,
        !.ClientAuth = IF HasFlag(usage, TLSServer)
                       THEN "VerifyClientCertIfGiven" ELSE @,
        !.ClientCAs = IF HasFlag(usage, TLSClient) THEN caPool ELSE @]

\* lines 564-570: the pool goes where the usage says
installPool(config, usage, caPool) ==
    [config EXCEPT
        !.ClientCAs = IF HasFlag(usage, TLSServer) THEN caPool ELSE @,
        !.ClientAuth = IF HasFlag(usage, TLSServer)
                       THEN "VerifyClientCertIfGiven" ELSE @,
        !.RootCAs = IF HasFlag(usage, TLSClient) THEN caPool ELSE @]

\* (*ParsedCertBundle).GetTLSConfig: [err, config]
GetTLSConfig(pb, usage) ==
    LET tlsCert == tlsCertificate(pb)
        certificates ==
            IF Len(tlsCert.Certificate) > 0 THEN <<tlsCert>> ELSE <<>>
        base == [nil |-> FALSE, MinVersion |-> "VersionTLS12",
                 ClientCAs |-> NilPool, RootCAs |-> NilPool,
                 ClientAuth |-> "NoClientCert",
                 Certificates |-> certificates]
    IN
    IF Len(pb.CAChain) > 0
    THEN LET certBundle == ToCertBundle(pb) IN
         IF certBundle.err # ""
         THEN [err |-> "Error converting parsed bundle to string bundle when getting TLS config",
               config |-> NilConfig]
         ELSE
         LET caPool == AppendCertsFromPEM(certBundle.result.CAChain[1]) IN
         IF ~caPool.ok
         THEN [err |-> "Could not append CA certificate", config |-> NilConfig]
         ELSE [err |-> "", config |-> installPool(base, usage, caPool.pool)]
    ELSE [err |-> "", config |-> base]

(***************************************************************************)
(* The inputs                                                              *)
(***************************************************************************)
RSAKey1 == [alg |-> "rsa", id |-> 1]
ECKey2 == [alg |-> "ec", id |-> 2]
RSAKey3 == [alg |-> "rsa", id |-> 3]
EdKey4 == [alg |-> "ed25519", id |-> 4]

\* key identifiers and serial numbers of the certificates
KeyIds == {2, 3}
Serials == {1, 300}

\* a leaf issued by the root, the self-signed root, and a certificate that
\* is no CA
LeafDER == CertDER(1, RSAKey1, FALSE, 1, 2)
RootDER == CertDER(300, RSAKey3, TRUE, 2, 2)
NotCADER == CertDER(1, ECKey2, FALSE, 3, 2)

Canon(label, der) == PEM(label, der, FALSE, FALSE)

\* the texts of the Certificate field
CertificateTexts ==
    {NoText, Garbage,
     Canon(CertificateLabel, LeafDER), Canon(CertificateLabel, RootDER),
     PEM(CertificateLabel, LeafDER, FALSE, TRUE),
     PEM(CertificateLabel, LeafDER, TRUE, FALSE),
     Canon("X509 CERTIFICATE", LeafDER),
     Canon(CertificateLabel, JunkDER)}

\* the texts of a CAChain entry
ChainTexts ==
    {Garbage,
     Canon(CertificateLabel, RootDER), Canon(CertificateLabel, NotCADER),
     PEM(CertificateLabel, RootDER, TRUE, FALSE)}

\* the texts of the IssuingCA field
IssuingCATexts == {NoText, Garbage, Canon(CertificateLabel, RootDER)}

\* the texts of the PrivateKey field
PrivateKeyTexts ==
    {NoText, Garbage,
     Canon(PKCS1Block, KeyDER("pkcs1", RSAKey1)),
     Canon(ECBlock, KeyDER("sec1", ECKey2)),
     Canon(PKCS8Block, KeyDER("pkcs8", RSAKey1)),
     Canon(PKCS8Block, KeyDER("pkcs8", ECKey2)),
     Canon(PKCS8Block, KeyDER("pkcs8", EdKey4)),
     Canon("EC PRIVATE KEY ", KeyDER("sec1", ECKey2)),
     Canon("DSA PRIVATE KEY", JunkDER),
     PEM(PKCS1Block, KeyDER("pkcs1", RSAKey3), TRUE, FALSE)}

\* the SerialNumber field: absent, or the serial number of LeafDER
SerialNumberTexts == {"", "01"}
PrivateKeyTypes == {UnknownPrivateKey, RSAPrivateKey, ECPrivateKey}
\* the PrivateKeyType field: absent, or a tag that is wrong of an EC key
PrivateKeyTags == {UnknownPrivateKey, RSAPrivateKey}

\* the sequences over S of length at most n
SeqUpTo(S, n) == UNION {[1..k -> S] : k \in 0..n}

\* the CertBundles a caller passes to ToParsedCertBundle
CertBundles ==
    [PrivateKeyType : PrivateKeyTags,
     Certificate : CertificateTexts,
     IssuingCA : IssuingCATexts,
     CAChain : SeqUpTo(ChainTexts, MaxChain),
     PrivateKey : PrivateKeyTexts,
     SerialNumber : SerialNumberTexts]

\* the certificates of a bundle the caller builds: a leaf, and the entries
\* of its chain, each a Certificate with its own big.Int at address ptr
LeafDERs ==
    {CertDER(s, k, FALSE, 1, 2) : s \in Serials, k \in {RSAKey1, RSAKey3}}
CADERs ==
    {CertDER(300, RSAKey3, ca, s, 2) : ca \in BOOLEAN, s \in KeyIds}

BuiltChain(ders) ==
    [i \in 1..Len(ders) |->
        CertBlock(ParseCertificate(ders[i], i + 1).cert, ders[i])]

\* the ParsedCertBundles a caller builds without a private key: no
\* certificate, or a certificate with a chain, or a certificate whose chain
\* starts with the certificate itself (the root CA puts itself in the chain)
BuiltBundles ==
    {[EmptyParsedCertBundle EXCEPT !.CAChain = BuiltChain(ders)] :
        ders \in SeqUpTo(CADERs, MaxChain)}
    \cup
    {[EmptyParsedCertBundle EXCEPT
        !.Certificate = ParseCertificate(leaf, 1).cert,
        !.CertificateBytes = leaf,
        !.CAChain = BuiltChain(ders)] :
        leaf \in LeafDERs, ders \in SeqUpTo(CADERs, MaxChain)}
    \cup
    {[EmptyParsedCertBundle EXCEPT
        !.Certificate = ParseCertificate(root, 1).cert,
        !.CertificateBytes = root,
        !.CAChain = <<CertBlock(ParseCertificate(root, 1).cert, root)>>
                    \o Tail(BuiltChain(<<root>> \o ders))] :
        root \in CADERs, ders \in SeqUpTo(CADERs, MaxChain - 1)}

\* the arguments of SetParsedPrivateKey
PrivateKeyArgs ==
    {<<Signer(RSAKey1), KeyDER("pkcs1", RSAKey1)>>,
     <<Signer(ECKey2), KeyDER("sec1", ECKey2)>>,
     <<Signer(RSAKey1), NoBytes>>}

TLSUsages == {TLSUnknown, TLSServer, TLSClient, TLSServer + TLSClient}

\* the texts of the CSR field
CSRTexts == {NoText, Garbage, Canon("CERTIFICATE REQUEST", CSRDER(RSAKey1))}

\* the CSRBundles a caller passes to ToParsedCSRBundle
CSRBundles ==
    [PrivateKeyType : PrivateKeyTypes,
     CSR : CSRTexts,
     PrivateKey : PrivateKeyTexts]

(***************************************************************************)
(* The state machine                                                       *)
(***************************************************************************)
\* a caller holds a CertBundle to parse, or has built a ParsedCertBundle
InitString ==
    /\ c0 \in CertBundles
    /\ c = c0
    /\ p = NilBundle
    /\ pc = "string"
    /\ perr = ""
    /\ ret = NoRet

InitBuilt ==
    /\ c0 = EmptyCertBundle
    /\ c = c0
    /\ p \in BuiltBundles
    /\ pc = "built"
    /\ perr = ""
    /\ ret = NoRet

InitCSR ==
    /\ c0 \in CSRBundles
    /\ c = c0
    /\ p = NilBundle
    /\ pc = "csr"
    /\ perr = ""
    /\ ret = NoRet

Init == InitString \/ InitBuilt \/ InitCSR

HasBundle == pc \in {"parsed", "built"}

CallToParsedCertBundle ==
    /\ pc = "string"
    /\ LET r == ToParsedCertBundle(c) IN
       /\ c' = r.c
       /\ p' = r.result
       /\ perr' = r.err
       /\ pc' = IF r.err = "" THEN "parsed" ELSE "failed"
    /\ ret' = NoRet
    /\ UNCHANGED c0

CallToParsedCSRBundle ==
    /\ pc = "csr"
    /\ LET r == ToParsedCSRBundle(c) IN
       /\ c' = r.c
       /\ p' = r.result
       /\ perr' = r.err
       /\ pc' = IF r.err = "" THEN "csrParsed" ELSE "csrFailed"
    /\ ret' = NoRet
    /\ UNCHANGED c0

CallSetParsedPrivateKey ==
    /\ pc = "built"
    /\ \E a \in PrivateKeyArgs, t \in PrivateKeyTypes :
        p' = SetParsedPrivateKey(p, a[1], t, a[2])
    /\ ret' = NoRet
    /\ UNCHANGED <<c0, c, pc, perr>>

CallToCertBundle ==
    /\ HasBundle
    /\ LET r == ToCertBundle(p) IN
       ret' = [op |-> "ToCertBundle", err |-> r.err, result |-> r.result]
    /\ UNCHANGED <<c0, c, p, pc, perr>>

CallGetCertificatePath ==
    /\ HasBundle
    /\ LET r == GetCertificatePath(p) IN
       ret' = [op |-> "GetCertificatePath", panic |-> r.panic, path |-> r.path]
    /\ UNCHANGED <<c0, c, p, pc, perr>>

CallVerify ==
    /\ HasBundle
    /\ LET r == Verify(p) IN
       ret' = [op |-> "Verify", err |-> r.err, index |-> r.index]
    /\ UNCHANGED <<c0, c, p, pc, perr>>

CallGetTLSConfig ==
    /\ HasBundle
    /\ \E usage \in TLSUsages :
        LET r == GetTLSConfig(p, usage) IN
        ret' = [op |-> "GetTLSConfig", usage |-> usage, err |-> r.err,
                config |-> r.config]
    /\ UNCHANGED <<c0, c, p, pc, perr>>

Next ==
    \/ CallToParsedCertBundle
    \/ CallToParsedCSRBundle
    \/ CallSetParsedPrivateKey
    \/ CallToCertBundle
    \/ CallGetCertificatePath
    \/ CallVerify
    \/ CallGetTLSConfig

Spec == Init /\ [][Next]_vars

(***************************************************************************)
(* Properties of ToParsedCertBundle and of the round trip                  *)
(***************************************************************************)
Parsed == pc = "parsed"
Returned == pc \in {"parsed", "failed"}

\* two text fields are identical up to leading and trailing whitespace
SameText(a, b) == TrimSpace(a) = TrimSpace(b)

\* the String Bundle out holds the certificate, chain and key texts of b,
\* and its serial number is the serial number b holds after parsing
RoundTrips(b, after, out) ==
    /\ SameText(out.Certificate, b.Certificate)
    /\ Len(out.CAChain) = Len(b.CAChain)
    /\ \A i \in 1..Len(b.CAChain) : SameText(out.CAChain[i], b.CAChain[i])
    /\ SameText(out.PrivateKey, b.PrivateKey)
    /\ TrimSpaceStr(out.SerialNumber) = TrimSpaceStr(after.SerialNumber)

\* a text as the encoder lays it out: no headers, the label given
Encoded(t, labels) == t.kind = "pem" /\ ~t.hdr /\ t.label \in labels

\* a String Bundle whose texts are laid out as ToCertBundle lays them out,
\* whose chain is not carried by the legacy IssuingCA field and whose
\* serial number is absent or the colon-hex serial of its certificate
EncoderForm(b) ==
    /\ NonEmpty(b.Certificate) => Encoded(b.Certificate, {CertificateLabel})
    /\ \A i \in 1..Len(b.CAChain) : Encoded(b.CAChain[i], {CertificateLabel})
    /\ NonEmpty(b.PrivateKey) =>
            Encoded(b.PrivateKey, {PKCS1Block, PKCS8Block, ECBlock})
    /\ Len(b.CAChain) > 0 \/ ~NonEmpty(b.IssuingCA)
    /\ \/ b.SerialNumber = ""
       \/ /\ NonEmpty(b.Certificate)
          /\ b.SerialNumber =
                GetHexFormatted(BigBytes(b.Certificate.der.serial), ":")

\* C1 as stated: for every String Bundle b on which ToParsedCertBundle
\* succeeds, ToCertBundle(ToParsedCertBundle(b)) holds b's certificate,
\* chain and key texts up to outer whitespace and b's serial number after
\* parsing.
C1_RoundTripEveryBundle ==
    (Parsed /\ ret.op = "ToCertBundle") =>
        ret.err = "" /\ RoundTrips(c0, c, ret.result)

\* C1 as amended: the round trip holds for every String Bundle b on which
\* ToParsedCertBundle succeeds and that is in the encoder's form (texts
\* without headers under the labels ToCertBundle writes, no chain carried
\* by the legacy issuing-CA field, serial number absent or that of the
\* certificate).
C1_RoundTripEncoderForm ==
    (Parsed /\ ret.op = "ToCertBundle" /\ EncoderForm(c0)) =>
        ret.err = "" /\ RoundTrips(c0, c, ret.result)

C1_Witness ==
    /\ Parsed /\ ret.op = "ToCertBundle" /\ EncoderForm(c0)
    /\ NonEmpty(c0.Certificate) /\ c0.Certificate.pad
    /\ c0.PrivateKey.kind = "pem" /\ c0.PrivateKey.label = PKCS8Block
    /\ Len(c0.CAChain) = 2 /\ c0.CAChain[1] # c0.CAChain[2]
    /\ c0.SerialNumber = ""

\* a non-empty text field that decodes to a certificate
WellFormedCertificate(t) == pemDecode(t).ok /\ pemDecode(t).Bytes.kind = "cert"

\* a non-empty private key text under a recognized label, holding a key of
\* that encoding (and, under PKCS#8, an RSA or EC key)
WellFormedPrivateKey(t) ==
    /\ pemDecode(t).ok
    /\ LET label == TrimSpaceStr(pemDecode(t).Type)
           der == pemDecode(t).Bytes
       IN \/ label = ECBlock /\ der.kind = "sec1"
          \/ label = PKCS1Block /\ der.kind = "pkcs1"
          \/ label = PKCS8Block /\ der.kind = "pkcs8"
                /\ der.key.alg \in {"rsa", "ec"}

WellFormed(b) ==
    /\ NonEmpty(b.PrivateKey) => WellFormedPrivateKey(b.PrivateKey)
    /\ NonEmpty(b.Certificate) => WellFormedCertificate(b.Certificate)
    /\ \A i \in 1..Len(b.CAChain) : WellFormedCertificate(b.CAChain[i])
    /\ NonEmpty(b.IssuingCA) => WellFormedCertificate(b.IssuingCA)

\* C2: on a String Bundle whose non-empty fields are all well-formed,
\* ToParsedCertBundle returns a parsed bundle and no error and does not
\* fault, whichever fields are present.
C2_AbsenceIsNoError ==
    (Returned /\ WellFormed(c0)) => (perr = "" /\ p # NilBundle)

ChainBytes(chain) == [i \in 1..Len(chain) |-> chain[i].Bytes]

\* C3: a non-empty CA chain is parsed entry by entry in order and the
\* issuing CA then has no effect on the outcome, malformed or not; with no
\* CA chain a non-empty issuing CA is the one entry of the parsed chain;
\* with neither the parsed chain is empty.
C3_ChainPrecedence ==
    Returned =>
        /\ Len(c0.CAChain) > 0 =>
            /\ LET r == ToParsedCertBundle([c0 EXCEPT !.IssuingCA = NoText])
               IN perr = r.err /\ p = r.result
            /\ Parsed =>
                ChainBytes(p.CAChain) =
                    [i \in 1..Len(c0.CAChain) |-> pemDecode(c0.CAChain[i]).Bytes]
        /\ (Parsed /\ Len(c0.CAChain) = 0 /\ NonEmpty(c0.IssuingCA)) =>
            /\ Len(p.CAChain) = 1
            /\ p.CAChain[1].Bytes = pemDecode(c0.IssuingCA).Bytes
            /\ p.CAChain[1].Certificate.SubjectKeyId =
                    pemDecode(c0.IssuingCA).Bytes.ski
        /\ (Parsed /\ Len(c0.CAChain) = 0 /\ ~NonEmpty(c0.IssuingCA)) =>
            p.CAChain = <<>>

C3_Witness ==
    /\ Parsed /\ Len(c0.CAChain) = 2 /\ c0.CAChain[1] # c0.CAChain[2]
    /\ c0.IssuingCA = Garbage

\* the key type that the key block of a private key text says
InferredType(t) ==
    LET label == TrimSpaceStr(pemDecode(t).Type) IN
    CASE label = ECBlock -> ECPrivateKey
      [] label = PKCS1Block -> RSAPrivateKey
      [] label = PKCS8Block ->
            IF pemDecode(t).Bytes.key.alg = "ec" THEN ECPrivateKey
            ELSE RSAPrivateKey

\* C4: after a successful ToParsedCertBundle on a bundle with a private
\* key, the parsed key type and the input's key-type tag are the type the
\* key block says, whatever tag the caller gave, and the parsed key type
\* agrees with the block format and with the signer's algorithm.
C4_KeyTypeInferred ==
    (Parsed /\ NonEmpty(c0.PrivateKey)) =>
        /\ p.PrivateKeyType = InferredType(c0.PrivateKey)
        /\ c.PrivateKeyType = InferredType(c0.PrivateKey)
        /\ p.PrivateKeyFormat \in {ECBlock, PKCS1Block, PKCS8Block}
        /\ p.PrivateKeyFormat = ECBlock => p.PrivateKeyType = ECPrivateKey
        /\ p.PrivateKeyFormat = PKCS1Block => p.PrivateKeyType = RSAPrivateKey
        /\ p.PrivateKey # NoSigner
        /\ p.PrivateKey.alg = "ec" <=> p.PrivateKeyType = ECPrivateKey
        /\ p.PrivateKey.alg = "rsa" <=> p.PrivateKeyType = RSAPrivateKey

C4_Witness ==
    /\ Parsed /\ c0.PrivateKey.kind = "pem"
    /\ c0.PrivateKey.label = PKCS8Block
    /\ c0.PrivateKeyType = RSAPrivateKey
    /\ c.PrivateKeyType = ECPrivateKey

\* C5: after a successful ToParsedCertBundle the serial-number field holds
\* the colon-hex serial of the parsed certificate if it was empty and a
\* certificate was present, and is as it was otherwise.
C5_SerialBackfill ==
    Parsed =>
        IF c0.SerialNumber = "" /\ NonEmpty(c0.Certificate)
        THEN c.SerialNumber =
                GetHexFormatted(BigBytes(p.Certificate.SerialNumber.val), ":")
        ELSE c.SerialNumber = c0.SerialNumber

C5_Witness ==
    /\ Parsed /\ c0.SerialNumber = "" /\ NonEmpty(c0.Certificate)
    /\ p.Certificate.SerialNumber.val = 300 /\ c.SerialNumber = "01:2c"

(***************************************************************************)
(* Properties of Verify, GetCertificatePath, GetTLSConfig and ToCertBundle *)
(***************************************************************************)
HasKeyAndCertificate == p.PrivateKey # NoSigner /\ p.Certificate # NoCert
KeyCheckErrors == {ErrMismatch, "could not compare public and private keys"}

\* C6: with a signer and a certificate, Verify returns the mismatch error
\* whenever their public keys differ and the key check never fails when
\* they are equal; without one of them the key check cannot fail.
C6_VerifyKeyMatch ==
    ret.op = "Verify" =>
        IF HasKeyAndCertificate
        THEN IF p.Certificate.PublicKey # Public(p.PrivateKey)
             THEN ret.err = ErrMismatch
             ELSE ret.err \notin KeyCheckErrors
        ELSE ret.err \notin KeyCheckErrors

C6_Witness ==
    /\ ret.op = "Verify" /\ HasKeyAndCertificate
    /\ p.Certificate.PublicKey.alg = p.PrivateKey.alg
    /\ p.Certificate.PublicKey.id # p.PrivateKey.id
    /\ ret.err = ErrMismatch

\* the links of a path that fail: link i joins path[i] to its parent
\* path[i+1] (positions counted from 1; the error cites i, the parent's
\* position counted from 0)
FailingLinks(path) ==
    {i \in 1..(Len(path) - 1) :
        \/ ~path[i + 1].Certificate.IsCA
        \/ path[i].Certificate.AuthorityKeyId
                # path[i + 1].Certificate.SubjectKeyId}

Least(S) == CHOOSE i \in S : \A j \in S : i <= j

\* C7: when the key check passes, Verify walks the trust path from the
\* leaf and returns no error iff every parent is a CA whose subject key
\* identifier equals the child's authority key identifier; otherwise it
\* returns the first failing check, citing the parent's position, the CA
\* flag before the key identifiers.  A path of one passes.
C7_VerifyChainLinkage ==
    (ret.op = "Verify" /\ ret.err \notin KeyCheckErrors
        /\ ~GetCertificatePath(p).panic) =>
        LET path == GetCertificatePath(p).path
            bad == FailingLinks(path)
        IN IF bad = {} THEN ret.err = ""
           ELSE /\ ret.index = Least(bad)
                /\ ret.err = IF ~path[Least(bad) + 1].Certificate.IsCA
                             THEN ErrNotCA ELSE ErrTrustPath

C7_Witness ==
    /\ ret.op = "Verify" /\ ~GetCertificatePath(p).panic
    /\ Len(GetCertificatePath(p).path) = 3
    /\ ret.err = ErrTrustPath /\ ret.index = 2

\* C8: with a certificate and a non-empty chain, if the first chain entry
\* has the serial number of the certificate the trust path does not repeat
\* it and is as long as the chain; otherwise the trust path is the
\* certificate followed by the chain.
C8_SelfReferentialRoot ==
    (ret.op = "GetCertificatePath" /\ p.Certificate # NoCert
        /\ Len(p.CAChain) > 0) =>
        /\ ~ret.panic
        /\ IF p.CAChain[1].Certificate.SerialNumber.val
                = p.Certificate.SerialNumber.val
           THEN Len(ret.path) = Len(p.CAChain)
           ELSE ret.path =
                  <<CertBlock(p.Certificate, p.CertificateBytes)>> \o p.CAChain

PoolOf(bytes) == [nil |-> FALSE, certs |-> {bytes}]

\* C9: with a chain, usage server sets the client-CA pool and leaves the
\* root pool nil, usage client the reverse, usage both sets both to one
\* pool, which holds the first chain entry only; with no chain both pools
\* are nil whatever the usage, and the certificate list has one entry when
\* a certificate is present.
C9_TLSUsageFlags ==
    ret.op = "GetTLSConfig" =>
        /\ ret.err = ""
        /\ IF Len(p.CAChain) > 0
           THEN LET pool == PoolOf(p.CAChain[1].Bytes) IN
                /\ ret.usage = TLSServer =>
                     ret.config.ClientCAs = pool /\ ret.config.RootCAs = NilPool
                /\ ret.usage = TLSClient =>
                     ret.config.RootCAs = pool /\ ret.config.ClientCAs = NilPool
                /\ ret.usage = TLSServer + TLSClient =>
                     ret.config.RootCAs = pool /\ ret.config.ClientCAs = pool
           ELSE /\ ret.config.ClientCAs = NilPool
                /\ ret.config.RootCAs = NilPool
                /\ p.Certificate # NoCert => Len(ret.config.Certificates) = 1

C9_Witness ==
    /\ ret.op = "GetTLSConfig" /\ ret.usage = TLSServer
    /\ Len(p.CAChain) = 2 /\ p.CAChain[1].Bytes # p.CAChain[2].Bytes
    /\ ret.config.ClientCAs = PoolOf(p.CAChain[1].Bytes)
    /\ ret.config.RootCAs = NilPool

\* C10: ToCertBundle returns a String Bundle and no error, except that
\* with private-key bytes and a key type that is neither rsa nor ec it
\* returns an error and no String Bundle; it never writes a private key
\* under a label that is not a recognized private-key label.
C10_ToCertBundleErrors ==
    ret.op = "ToCertBundle" =>
        IF HasBytes(p.PrivateKeyBytes)
            /\ p.PrivateKeyType \notin {RSAPrivateKey, ECPrivateKey}
        THEN ret.err # ""
        ELSE /\ ret.err = ""
             /\ NonEmpty(ret.result.PrivateKey) =>
                    ret.result.PrivateKey.label
                        \in {PKCS1Block, PKCS8Block, ECBlock}

(***************************************************************************)
(* Properties of ToParsedCSRBundle and of the parsed serial number         *)
(***************************************************************************)
\* the CertBundle holding the private key and key-type tag of a CSRBundle
KeyOnlyCertBundle(b) ==
    [EmptyCertBundle EXCEPT !.PrivateKey = b.PrivateKey,
                            !.PrivateKeyType = b.PrivateKeyType]

\* the CSR field is absent or holds a certificate request
CSRFieldParses(b) ==
    NonEmpty(b.CSR) =>
        pemDecode(b.CSR).ok /\ ParseCertificateRequest(pemDecode(b.CSR).Bytes).ok

\* C11: on every private-key text ToParsedCSRBundle and ToParsedCertBundle
\* agree on success and on the inferred key type, and after a successful
\* ToParsedCSRBundle with a private key the input's key-type tag is the
\* inferred key type.
C11_CSRKeyHandlingMirrors ==
    (pc \in {"csrParsed", "csrFailed"} /\ CSRFieldParses(c0)) =>
        LET r == ToParsedCertBundle(KeyOnlyCertBundle(c0)) IN
        /\ perr = "" <=> r.err = ""
        /\ perr = "" =>
            /\ p.PrivateKeyType = r.result.PrivateKeyType
            /\ NonEmpty(c0.PrivateKey) => c.PrivateKeyType = p.PrivateKeyType

\* C12: after a successful ToParsedCertBundle on a bundle with a
\* certificate, the parsed bundle's serial-number field is the serial
\* number of the parsed certificate, wherever the chain came from.
C12_ParsedSerialNumber ==
    (Parsed /\ NonEmpty(c0.Certificate)) =>
        /\ p.SerialNumber # NilInt
        /\ p.SerialNumber.val = p.Certificate.SerialNumber.val

====
